---- MODULE Spec2Model ----
(***************************************************************************)
(* Model of the batch execution engine of the subtitle translator:         *)
(* TranslationOrchestrator (src/main.py) driving the handler pipeline over  *)
(* a thread pool, with retry rounds, checkpoints and a cooperative          *)
(* shutdown flag.                                                           *)
(*                                                                          *)
(* Thread 0 is the scheduler thread (the caller of run_batch_translation);  *)
(* threads 1..worker_count are the ThreadPoolExecutor's workers.            *)
(***************************************************************************)
EXTENDS Integers, Sequences, FiniteSets, TLC

\* ------------------------------------------------------------------ bounds
MaxTotal == 3          \* largest number of segments in the store
MaxBatch == 2          \* largest batch_size tried
MaxWorkers == 2        \* largest worker_count tried
MaxAttempts == 1       \* attempt budget of the execution stage (settings.max_retries)
MaxBudget == 3         \* largest attempt budget tried for a single pipeline pass
MaxMsgs == 2           \* largest number of messages in a backend response
MaxContent == 2        \* largest number of words in a message's content
MaxManualRetries == 3  \* largest max_retries given to manual_retry_failed
MaxDirectCalls == 1    \* direct process_request calls after a return
MaxPersists == 2       \* largest number of persists of one index in a row
MaxOps == 5            \* largest number of calls made on one pipeline builder

\* _retry_failed_items(failed_indices, max_retries = 2)
MaxRetryRounds == 2

SaveIntervals == {1, 2}

Indices == 1..MaxTotal
Threads == 0..MaxWorkers
Scheduler == 0

VARIABLES
    \* arguments of the run and size of the store
    total_subs, start_index, worker_count, batch_size, save_interval,
    \* scheduler thread
    pc, current_index, processed_count, success_count, failed_indices,
    batch, collected,
    retry_success, remaining, current_failed, retry_round, pos,
    \* pool and futures
    queue, fut, thr,
    \* shared state of the orchestrator
    shutdown, total_input_tokens, total_output_tokens,
    \* segment store and progress file
    persisted, saved, checkpoint, final_saved, stats,
    \* history (observation only)
    batch_log, extracted_in, extracted_out, round_start, round_calls,
    retry_ok, ext_shutdown, shutdown_in_batch, batches_at_shutdown,
    pipe_after_shutdown, timed_out, item_failed, saved_at, nonpositive_given,
    call_count, returned_ok, round_log,
    \* stats_lock (its holder), and the totals after each complete update
    \* (observation only)
    stats_lock, complete_totals,
    \* the public method in progress, and the manual recovery path
    entry, max_retries, scan,
    \* process_request calls made from outside run_batch_translation and
    \* manual_retry_failed (observation only)
    direct_calls,
    \* a TranslationPipelineBuilder: its _handlers list, the outcome of the last
    \* build(), and the calls made on it so far (observation only); handler_next[i]
    \* is the place in _handlers of the successor of handler i, 0 for None
    builder_handlers, handler_next, build_result, ops,
    \* one pass of a request through the handler chain
    request, max_attempts, stage, response, result, backend_calls, attempt_log,
    stored, log_lines,
    \* history of the persists of one index (observation only)
    stored_before, persisted_last, persist_count

cfgvars == <<total_subs, start_index, worker_count, batch_size, save_interval>>
schedvars == <<pc, current_index, processed_count, success_count, failed_indices,
               batch, collected>>
retryvars == <<retry_success, remaining, current_failed, retry_round, pos>>
poolvars == <<queue, fut>>
tokvars == <<total_input_tokens, total_output_tokens>>
outvars == <<saved, checkpoint, final_saved, stats>>
shutvars == <<ext_shutdown, shutdown_in_batch, batches_at_shutdown>>
histvars == <<batch_log, round_start, round_calls, retry_ok, shutvars,
              pipe_after_shutdown, timed_out>>
extrvars == <<extracted_in, extracted_out, item_failed>>
pipevars == <<request, max_attempts, stage, response, result, backend_calls,
              attempt_log, stored, log_lines>>
arghist == <<saved_at, nonpositive_given>>
callhist == <<call_count, returned_ok>>
roundhist == <<round_log>>
lockvars == <<stats_lock, complete_totals>>
manvars == <<entry, max_retries, scan>>
directvars == <<direct_calls>>
buildervars == <<builder_handlers, handler_next, build_result, ops>>
orchvars == <<cfgvars, schedvars, retryvars, poolvars, thr, shutdown, tokvars,
              persisted, outvars, histvars, extrvars, arghist, callhist, manvars,
              roundhist, lockvars, directvars>>
runvars == <<orchvars, buildervars>>
storehist == <<stored_before, persisted_last, persist_count>>
vars == <<runvars, pipevars, storehist>>

\* ------------------------------------------------------------ pure helpers
Min(a, b) == IF a <= b THEN a ELSE b

RECURSIVE SeqFromTo(_, _)
\* list(range(lo, hi)): lo, lo+1, ..., hi-1
SeqFromTo(lo, hi) == IF lo >= hi THEN <<>> ELSE <<lo>> \o SeqFromTo(lo + 1, hi)

Range(s) == {s[k] : k \in 1..Len(s)}

\* start_index = start_index or self.load_progress()   (load_progress returns 1)
\* if not (1 <= start_index <= total_subs): start_index = 1
UncheckedStartIndex(arg, total) == IF arg = 0 THEN 1 ELSE arg
ValidStartIndex(arg, total) ==
    LET s == IF arg = 0 THEN 1 ELSE arg
    IN IF 1 <= s /\ s <= total THEN s ELSE 1

\* worker_count = worker_count or self.settings.worker_count  (same for batch_size)
OrDefault(arg, default) == IF arg = 0 THEN default ELSE arg

\* batch = list(range(current_index, min(current_index + batch_size, total_subs + 1)))
MakeBatch(cur, bs, total) == SeqFromTo(cur, Min(cur + bs, total + 1))

\* current_index += batch_size
StuckIndex(cur, bs) == cur
NextIndex(cur, bs) == cur + bs

\* ------------------------------------------------ executor and pipeline
\* What one call of TranslationExecutor.execute_sync returns for one attempt:
\* (True, translations, in, out) for a valid response with translations,
\* (False, {}, in, out) for an invalid response or one without translations,
\* (False, {}, 0, 0) for a timeout or any other exception.
ExecResults ==
    { [ok |-> TRUE,  tin |-> 1, tout |-> 1],
      [ok |-> FALSE, tin |-> 1, tout |-> 0],
      [ok |-> FALSE, tin |-> 0, tout |-> 0] }

\* The backend's behaviour during one pipeline call: the result of each attempt.
ScriptsOf(n) == [1..n -> ExecResults]
Scripts == ScriptsOf(MaxAttempts)

FreshRequest == [success |-> FALSE, input_tokens |-> 0, output_tokens |-> 0,
                 attempt_count |-> 0]

RECURSIVE ExecuteWithRetry(_, _, _)
\* Execution stage: up to Len(script) attempts (the attempt budget), the tokens of
\* every attempt are added to the request, the first successful attempt ends the
\* loop.
ExecuteWithRetry(req, script, k) ==
    IF k > Len(script) THEN req
    ELSE LET a == script[k]
             r == [req EXCEPT !.attempt_count = @ + 1,
                              !.input_tokens = @ + a.tin,
                              !.output_tokens = @ + a.tout]
         IN IF a.ok THEN [r EXCEPT !.success = TRUE]
            ELSE ExecuteWithRetry(r, script, k + 1)

\* self.pipeline.handle(request): Validate -> Execute-with-retry -> Persist -> Log.
\* A request that fails validation is marked failed and never executed.
PipelineHandle(valid, script) ==
    IF valid THEN ExecuteWithRetry(FreshRequest, script, 1) ELSE FreshRequest

RECURSIVE SumIn(_, _)
SumIn(script, n) == IF n = 0 THEN 0 ELSE script[n].tin + SumIn(script, n - 1)
RECURSIVE SumOut(_, _)
SumOut(script, n) == IF n = 0 THEN 0 ELSE script[n].tout + SumOut(script, n - 1)

\* ------------------------------------------------------- process_request
IdleThread == [idx |-> 0, phase |-> "idle", ok |-> FALSE, tin |-> 0, tout |-> 0]

Busy(t) == thr[t].phase # "idle"

\* if self._shutdown_event.is_set(): return False     (otherwise the request is
\* built and sent through the pipeline)
EntersPipelineAlways(flag) == TRUE
EntersPipeline(flag) == ~flag

\* if result.input_tokens > 0 or result.output_tokens > 0:
UpdatesTokensAnd(r) == r.tin > 0 /\ r.tout > 0
UpdatesTokens(r) == r.tin > 0 \/ r.tout > 0

\* with self.stats_lock: self.total_input_tokens += result.input_tokens
AddTokens(tot, r, amount) == IF UpdatesTokens(r) THEN tot + amount ELSE tot

\* self.stats_lock = threading.Lock(): held by no thread, or by one
NoHolder == -1
LockIgnored(holder) == TRUE
LockFree(holder) == holder = NoHolder

\* ------------------------------------------------------------------ pool
\* ThreadPoolExecutor(max_workers=worker_count)
PoolCapacityBatch == batch_size
PoolCapacity == worker_count

\* future_to_index = {executor.submit(self.process_request, idx): idx for idx in batch}
SubmitTwice(q, b) == q \o b \o b
Submit(q, b) == q \o b

DoneStates == {"ok", "fail", "raise"}

PoolDrained == queue = <<>> /\ \A w \in 1..MaxWorkers : ~Busy(w)

\* ------------------------------------------- TranslationExecutor: responses
\* name of the tool the agent is told to call with {"translations": {...}}
UPDATE_TOOL == "update_translations_in_memory"

\* AppConstants.REPETITIVE_PATTERNS and AppConstants.TOOL_PATTERNS
REPETITIVE_PATTERNS ==
    { "a proper translation would be", "should be a statement matching",
      "is not appropriate", "let me check", "i need to", "looking at the" }
TOOL_PATTERNS == { "calling tool", "using tool", "tool call", "invoke", "executing" }

\* A message's content is a string, modelled as a sequence of words; each word
\* has its characters counted by len() and its lower-case form given by lower().
Words == { "Let Me Check", "invoke", "hello", "ok", " " }

WordLen(w) ==
    CASE w = "Let Me Check" -> 12
      [] w = "invoke" -> 6
      [] w = "hello" -> 5
      [] w = "ok" -> 2
      [] OTHER -> 1

\* str.lower()
SameCase(w) == w
Lower(w) == IF w = "Let Me Check" THEN "let me check" ELSE w

RECURSIVE CharLen(_)
\* len(content)
CharLen(c) == IF c = <<>> THEN 0 ELSE WordLen(Head(c)) + CharLen(Tail(c))

RECURSIVE LStrip(_)
LStrip(c) == IF c # <<>> /\ Head(c) = " " THEN LStrip(Tail(c)) ELSE c
RECURSIVE RStrip(_)
RStrip(c) ==
    IF c # <<>> /\ c[Len(c)] = " " THEN RStrip(SubSeq(c, 1, Len(c) - 1)) ELSE c
\* str.strip()
Strip(c) == RStrip(LStrip(c))

\* any(p.lower() in content_lower for p in patterns)
ContainsAny(c, patterns) ==
    \E k \in 1..Len(c) : \E p \in patterns : Lower(p) = Lower(c[k])

SeqsUpTo(S, n) == UNION { [1..k -> S] : k \in 0..n }
Contents == SeqsUpTo(Words, MaxContent)

\* a mapping language -> translated string
EmptyMap == [l \in {} |-> ""]
Translations ==
    { EmptyMap, "en" :> "Hello", ("en" :> "Hello") @@ ("ko" :> "annyeong") }

\* one tool call of a message: its name and its args
ToolCalls ==
    { [name |-> "other_tool", has_translations |-> FALSE, translations |-> EmptyMap],
      [name |-> UPDATE_TOOL, has_translations |-> FALSE, translations |-> EmptyMap] }
    \cup { [name |-> UPDATE_TOOL, has_translations |-> TRUE, translations |-> t] :
             t \in Translations }

\* msg.usage_metadata (None, or the token counts of the call)
NoUsage == [present |-> FALSE, input_tokens |-> 0, output_tokens |-> 0]
Usage(tin, tout) == [present |-> TRUE, input_tokens |-> tin, output_tokens |-> tout]

\* the last message of a response, and the messages before it (whose content the
\* executor never reads)
LastMessages ==
    [tool_calls : SeqsUpTo(ToolCalls, 1), content : Contents,
     usage_metadata : {NoUsage, Usage(1, 1)}]
EarlierMessages ==
    [tool_calls : SeqsUpTo(ToolCalls, 1), content : {<<>>},
     usage_metadata : {NoUsage, Usage(1, 0)}]
MessageLists ==
    {<<>>} \cup { Append(pre, m) : pre \in SeqsUpTo(EarlierMessages, MaxMsgs - 1),
                                   m \in LastMessages }

\* What one backend call (agent.ainvoke under asyncio.wait_for, inside a fresh
\* event loop) can produce: a timeout, any other exception, a failure of the
\* event loop itself, a response without "messages", or a response.
NoResponse == [kind |-> "idle", messages |-> <<>>]
BackendOutcomes ==
    { [kind |-> k, messages |-> <<>>] :
        k \in {"timeout", "error", "loop_error", "empty"} }
    \cup { [kind |-> "response", messages |-> ms] : ms \in MessageLists }

\* extract_translations: the args["translations"] of the first tool call named
\* update_translations_in_memory that carries them, else None
NotFound == [found |-> FALSE, translations |-> EmptyMap]
RECURSIVE FirstCall(_)
FirstCall(calls) ==
    IF calls = <<>> THEN NotFound
    ELSE IF Head(calls).name = UPDATE_TOOL /\ Head(calls).has_translations
         THEN [found |-> TRUE, translations |-> Head(calls).translations]
         ELSE FirstCall(Tail(calls))
RECURSIVE ExtractTranslations(_)
ExtractTranslations(msgs) ==
    IF msgs = <<>> THEN NotFound
    ELSE LET f == FirstCall(Head(msgs).tool_calls)
         IN IF f.found THEN f ELSE ExtractTranslations(Tail(msgs))

RECURSIVE ExtractTokenUsage(_)
\* extract_token_usage: the usage of the last message that has one, else (0, 0)
ExtractTokenUsage(msgs) ==
    IF msgs = <<>> THEN <<0, 0>>
    ELSE LET m == msgs[Len(msgs)]
         IN IF m.usage_metadata.present
            THEN <<m.usage_metadata.input_tokens, m.usage_metadata.output_tokens>>
            ELSE ExtractTokenUsage(SubSeq(msgs, 1, Len(msgs) - 1))

\* is_valid_response
IsValidResponse(resp) ==
    IF resp.kind # "response" THEN FALSE      \* not response / no "messages"
    ELSE IF resp.messages = <<>> THEN FALSE   \* messages[-1]: IndexError, caught
    ELSE LET last_message == resp.messages[Len(resp.messages)]
             content == last_message.content
         IN IF last_message.tool_calls # <<>> THEN TRUE
            ELSE IF content = <<>> \/ CharLen(Strip(content)) < 5 THEN FALSE
            ELSE IF ContainsAny(content, REPETITIVE_PATTERNS) THEN FALSE
            ELSE IF ContainsAny(content, TOOL_PATTERNS) THEN FALSE
            ELSE TRUE

\* the tuple (success, translations, input_tokens, output_tokens) an execution
\* returns; raised tells whether it left by an exception instead
Failed(tin, tout) ==
    [raised |-> FALSE, success |-> FALSE, translations |-> EmptyMap,
     input_tokens |-> tin, output_tokens |-> tout]
Raised == [Failed(0, 0) EXCEPT !.raised = TRUE]

\* execute_async
ExecuteAsyncAcceptsEmpty(o) ==
    IF o.kind \in {"timeout", "error"} THEN Failed(0, 0)
    ELSE LET u == ExtractTokenUsage(o.messages)
             t == ExtractTranslations(o.messages)
         IN IF ~IsValidResponse(o) \/ ~t.found THEN Failed(u[1], u[2])
            ELSE [raised |-> FALSE, success |-> TRUE,
                  translations |-> t.translations,
                  input_tokens |-> u[1], output_tokens |-> u[2]]
ExecuteAsync(o) ==
    IF o.kind \in {"timeout", "error"} THEN Failed(0, 0)
    ELSE LET u == ExtractTokenUsage(o.messages)
         IN IF ~IsValidResponse(o) THEN Failed(u[1], u[2])
            ELSE LET t == ExtractTranslations(o.messages)
                 IN IF ~t.found \/ DOMAIN t.translations = {}
                    THEN Failed(u[1], u[2])
                    ELSE [raised |-> FALSE, success |-> TRUE,
                          translations |-> t.translations,
                          input_tokens |-> u[1], output_tokens |-> u[2]]

\* execute_sync: run execute_async in a new event loop; except Exception returns
\* (False, {}, 0, 0)
ExecuteSyncUnguarded(o) ==
    IF o.kind \in {"timeout", "error", "loop_error"} THEN Raised ELSE ExecuteAsync(o)
ExecuteSync(o) ==
    IF o.kind = "loop_error" THEN Failed(0, 0)
    ELSE LET r == ExecuteAsync(o) IN IF r.raised THEN Failed(0, 0) ELSE r

\* outcomes that are exceptions of the call, not responses
Faults == {"timeout", "error", "loop_error"}

\* how an attempt ended, as seen by the caller of execute_sync
AttemptKind(o, r) ==
    IF r.success THEN "success" ELSE IF o.kind \in Faults THEN "fault" ELSE "failed"

\* ------------------------------------------------ the handler chain, one pass
\* TranslationPipelineBuilder().add_validation().add_execution(...)
\*     .add_persistence(...).add_logging(...).build()
HandlersExecutionFirst == <<"execution", "validation", "persistence", "logging">>
Handlers == <<"validation", "execution", "persistence", "logging">>

\* build(): handler i's successor is handler i + 1, the last one has none
SuccessorLastUnchained(h) ==
    LET i == CHOOSE k \in 1..Len(Handlers) : Handlers[k] = h
    IN IF i < Len(Handlers) - 1 THEN Handlers[i + 1] ELSE "end"
Successor(h) ==
    LET i == CHOOSE k \in 1..Len(Handlers) : Handlers[k] = h
    IN IF i < Len(Handlers) THEN Handlers[i + 1] ELSE "end"

\* add_execution(self.executor, settings.max_retries, self.logger):
\* ExecutionHandler(executor, max_attempts, logger)
BudgetPlusOne(m) == m + 1
HandlerBudget(m) == m

Texts == { <<>>, <<" ">>, <<"hello">> }
LangSets == { {}, {"en"}, {"en", "ja"} }

\* TranslationRequest(index, ko_text, context, target_langs)
NewRequest(text, langs) ==
    [ko_text |-> text, target_langs |-> langs, translations |-> EmptyMap,
     error |-> "none", success |-> FreshRequest.success,
     attempt_count |-> FreshRequest.attempt_count,
     input_tokens |-> FreshRequest.input_tokens,
     output_tokens |-> FreshRequest.output_tokens]

\* request.is_valid()
IsValid(req) == Strip(req.ko_text) # <<>> /\ req.target_langs # {}

MarkSuccessFlagOnly(req, t) == [req EXCEPT !.success = TRUE]
MarkSuccess(req, t) ==
    [req EXCEPT !.success = TRUE, !.translations = t, !.error = "none"]
MarkFailure(req, e) == [req EXCEPT !.success = FALSE, !.error = e]
IncrementAttempt(req) == [req EXCEPT !.attempt_count = @ + 1]

\* merge of new per-language fields into the stored record of the index
Replace(old, new) == new
Merge(old, new) == new @@ old

\* no pass in progress
PipeIdle ==
    /\ request = NewRequest(<<>>, {})
    /\ max_attempts = 0
    /\ stage = "off"
    /\ response = NoResponse
    /\ result = Failed(0, 0)
    /\ backend_calls = 0
    /\ attempt_log = <<>>
    /\ stored = EmptyMap
    /\ log_lines = 0
    /\ stored_before = EmptyMap
    /\ persisted_last = EmptyMap
    /\ persist_count = 0

\* ValidationHandler: an invalid request is marked failed and the chain stops
\* (the logging stage alone still runs)
Validation ==
    /\ stage = "validation"
    /\ IF IsValid(request)
       THEN /\ stage' = Successor("validation")
            /\ UNCHANGED request
       ELSE /\ request' = MarkFailure(request, "validation")
            /\ stage' = "logging"
    /\ UNCHANGED <<runvars, storehist, max_attempts, response, result, backend_calls,
                   attempt_log, stored, log_lines>>

\* ExecutionHandler, one attempt: increment the attempt count and call
\* executor.execute_sync(ko_text, context, target_langs)
ExecutionCall ==
    /\ stage = "execution"
    /\ response = NoResponse
    /\ request.attempt_count < HandlerBudget(max_attempts)
    /\ \E o \in BackendOutcomes :
         /\ response' = o
         /\ result' = ExecuteSync(o)
    /\ request' = IncrementAttempt(request)
    /\ backend_calls' = backend_calls + 1
    /\ attempt_log' = Append(attempt_log, AttemptKind(response', result'))
    /\ stage' = IF result'.raised THEN "raised" ELSE stage
    /\ UNCHANGED <<runvars, storehist, max_attempts, stored, log_lines>>

\* ExecutionHandler, after the attempt: add the attempt's tokens to the request;
\* success ends the loop, a failure on the last attempt marks the request failed
ExecutionRecord ==
    /\ stage = "execution"
    /\ response # NoResponse
    /\ LET r == [request EXCEPT !.input_tokens = @ + result.input_tokens,
                                !.output_tokens = @ + result.output_tokens]
       IN IF result.success
          THEN /\ request' = MarkSuccess(r, result.translations)
               /\ stage' = Successor("execution")
          ELSE IF r.attempt_count >= HandlerBudget(max_attempts)
          THEN /\ request' = MarkFailure(r, "execution")
               /\ stage' = Successor("execution")
          ELSE /\ request' = r
               /\ stage' = stage
    /\ response' = NoResponse
    /\ UNCHANGED <<runvars, storehist, max_attempts, result, backend_calls, attempt_log,
                   stored, log_lines>>

\* PersistenceHandler: a successful request's translations are merged into the
\* stored record of its index
Persistence ==
    /\ stage = "persistence"
    /\ stored' = IF request.success THEN Merge(stored, request.translations)
                 ELSE stored
    /\ IF request.success
       THEN /\ stored_before' = stored
            /\ persisted_last' = request.translations
            /\ persist_count' = persist_count + 1
       ELSE UNCHANGED storehist
    /\ stage' = Successor("persistence")
    /\ UNCHANGED <<runvars, request, max_attempts, response, result,
                   backend_calls, attempt_log, log_lines>>

\* LoggingHandler: one log line for the request
Logging ==
    /\ stage = "logging"
    /\ log_lines' = log_lines + 1
    /\ stage' = Successor("logging")
    /\ UNCHANGED <<runvars, storehist, request, max_attempts, response, result,
                   backend_calls, attempt_log, stored>>

\* ------------------------------------------------------------------ Init
Init ==
    /\ PipeIdle
    /\ total_subs \in 0..MaxTotal
    /\ start_index = 0
    /\ worker_count \in 1..MaxWorkers
    /\ batch_size \in 1..MaxBatch
    /\ save_interval \in SaveIntervals
    /\ pc = "idle"
    /\ current_index = 0
    /\ processed_count = 0
    /\ success_count = 0
    /\ failed_indices = <<>>
    /\ batch = <<>>
    /\ collected = {}
    /\ retry_success = 0
    /\ remaining = <<>>
    /\ current_failed = <<>>
    /\ retry_round = 0
    /\ pos = 0
    /\ queue = <<>>
    /\ fut = [i \in Indices |-> "none"]
    /\ thr = [t \in Threads |-> IdleThread]
    /\ shutdown = FALSE
    /\ total_input_tokens = 0
    /\ total_output_tokens = 0
    /\ persisted = {}
    /\ saved = {}
    /\ checkpoint = [a_index |-> 0, tin |-> 0, tout |-> 0, written |-> FALSE]
    /\ final_saved = FALSE
    /\ stats = "none"
    /\ batch_log = <<>>
    /\ extracted_in = 0
    /\ extracted_out = 0
    /\ round_start = <<>>
    /\ round_calls = [i \in Indices |-> 0]
    /\ retry_ok = {}
    /\ ext_shutdown = FALSE
    /\ shutdown_in_batch = FALSE
    /\ batches_at_shutdown = 0
    /\ pipe_after_shutdown = FALSE
    /\ timed_out = FALSE
    /\ item_failed = FALSE
    /\ saved_at = {}
    /\ nonpositive_given = FALSE
    /\ call_count = [i \in Indices |-> 0]
    /\ direct_calls = 0
    /\ returned_ok = {}
    /\ entry = "none"
    /\ max_retries = 0
    /\ builder_handlers = <<>>
    /\ handler_next = <<>>
    /\ build_result = "none"
    /\ ops = <<>>
    /\ round_log = <<>>
    /\ stats_lock = NoHolder
    /\ complete_totals = {<<0, 0>>}
    /\ scan = <<>>

\* ------------------------------------------- run_batch_translation: main pass
\* run_batch_translation(start_index, worker_count, batch_size) is called; an
\* argument of 0 stands for None as well (both are falsy). Until the call
\* worker_count and batch_size hold the values of the settings, which replace
\* a falsy argument; start_index holds the raw argument until Begin.
Call ==
    /\ pc = "idle"
    /\ start_index' \in -1..(MaxTotal + 1)
    /\ \E w \in -1..MaxWorkers, b \in -1..MaxBatch :
          /\ worker_count' = OrDefault(w, worker_count)
          /\ batch_size' = OrDefault(b, batch_size)
          /\ nonpositive_given' = (w <= 0 \/ b <= 0)
    /\ entry' = "run"
    /\ pc' = "entry"
    /\ UNCHANGED <<pipevars, directvars, lockvars, roundhist, buildervars, storehist, max_retries, scan, callhist, saved_at, total_subs, save_interval, current_index,
                   processed_count, success_count, failed_indices, batch,
                   collected, retryvars, poolvars, thr, shutdown, tokvars,
                   persisted, outvars, histvars, extrvars>>

\* Entry: start index validation, counters, pool creation
\* (ThreadPoolExecutor raises ValueError when max_workers <= 0).
Begin ==
    /\ pc = "entry"
    /\ start_index' = ValidStartIndex(start_index, total_subs)
    /\ current_index' = start_index'
    /\ processed_count' = 0
    /\ success_count' = 0
    /\ failed_indices' = <<>>
    /\ pc' = IF worker_count <= 0 THEN "abort" ELSE "while"
    /\ UNCHANGED <<pipevars, directvars, lockvars, roundhist, buildervars, storehist, manvars, callhist, arghist, total_subs, worker_count, batch_size, save_interval, batch,
                   collected, retryvars, poolvars, thr, shutdown, tokvars,
                   persisted, outvars, histvars, extrvars>>

\* while current_index <= total_subs and not shutdown: create and submit a batch.
\* A batch_size below zero gives an empty range: nothing is submitted and the
\* batch[0] of the log line that follows raises IndexError.
SubmitBatch ==
    /\ pc = "while"
    /\ current_index <= total_subs /\ ~shutdown
    /\ LET b == MakeBatch(current_index, batch_size, total_subs)
       IN /\ batch' = b
          /\ queue' = Submit(queue, b)
          /\ fut' = [i \in Indices |-> IF i \in Range(b) THEN "pending" ELSE fut[i]]
          /\ batch_log' = IF b = <<>> THEN batch_log ELSE Append(batch_log, b)
          /\ pc' = IF b = <<>> THEN "abort" ELSE "collect"
    /\ collected' = {}
    /\ UNCHANGED <<pipevars, directvars, lockvars, roundhist, buildervars, storehist, manvars, callhist, arghist, cfgvars, current_index, processed_count, success_count,
                   failed_indices, retryvars, thr, shutdown, tokvars, persisted,
                   outvars, round_start, round_calls, retry_ok, shutvars,
                   pipe_after_shutdown, timed_out, extrvars>>

\* the while condition is false: leave the loop and the with-block
LoopExit ==
    /\ pc = "while"
    /\ ~(current_index <= total_subs /\ ~shutdown)
    /\ pc' = "poolexit"
    /\ UNCHANGED <<pipevars, directvars, lockvars, roundhist, buildervars, storehist, manvars, callhist, arghist, cfgvars, current_index, processed_count, success_count,
                   failed_indices, batch, collected, retryvars, poolvars, thr,
                   shutdown, tokvars, persisted, outvars, histvars, extrvars>>

\* failed_indices.append(idx) for a result that is False or raises
RecordFailure(failed, i) == Append(failed, i)

\* One iteration of the as_completed loop for the completed future of index i.
\* The future is yielded once; its result is not read again ("taken").
Collect(i) ==
    /\ pc = "collect"
    /\ i \in Range(batch) \ collected
    /\ fut[i] \in DoneStates
    /\ fut' = [fut EXCEPT ![i] = "taken"]
    /\ IF shutdown
       THEN /\ pc' = "post"
            /\ UNCHANGED <<collected, processed_count, success_count, failed_indices>>
       ELSE /\ collected' = collected \cup {i}
            /\ success_count' = IF fut[i] = "ok" THEN success_count + 1
                                ELSE success_count
            /\ failed_indices' = IF fut[i] = "ok" THEN failed_indices
                                 ELSE RecordFailure(failed_indices, i)
            /\ processed_count' = processed_count + 1
            /\ pc' = pc
    /\ UNCHANGED <<pipevars, directvars, lockvars, roundhist, buildervars, storehist, manvars, callhist, arghist, cfgvars, current_index, batch, retryvars, queue, thr,
                   shutdown, tokvars, persisted, outvars, histvars, extrvars>>

\* as_completed is exhausted: every future of the batch was yielded
CollectEnd ==
    /\ pc = "collect"
    /\ Range(batch) \subseteq collected
    /\ pc' = "post"
    /\ UNCHANGED <<pipevars, directvars, lockvars, roundhist, buildervars, storehist, manvars, callhist, arghist, cfgvars, current_index, processed_count, success_count,
                   failed_indices, batch, collected, retryvars, poolvars, thr,
                   shutdown, tokvars, persisted, outvars, histvars, extrvars>>

\* as_completed(..., timeout=get_batch_timeout()) raises TimeoutError from the
\* for statement while a future of the batch is still pending; the exception
\* leaves the while loop and the with-block (which waits for the workers).
BatchTimeout ==
    /\ pc = "collect"
    /\ \E i \in Range(batch) : fut[i] = "pending"
    /\ timed_out' = TRUE
    /\ pc' = "abort"
    /\ UNCHANGED <<pipevars, directvars, lockvars, roundhist, buildervars, storehist, manvars, callhist, arghist, cfgvars, current_index, processed_count, success_count,
                   failed_indices, batch, collected, retryvars, poolvars, thr,
                   shutdown, tokvars, persisted, outvars, batch_log, round_start,
                   round_calls, retry_ok, shutvars, pipe_after_shutdown, extrvars>>

\* save_progress(index): the token totals are read under stats_lock
SaveProgress(index) ==
    [a_index |-> index, tin |-> total_input_tokens, tout |-> total_output_tokens,
     written |-> TRUE]

\* Periodic save, then current_index += batch_size
PostBatch ==
    /\ pc = "post"
    /\ checkpoint' = IF processed_count % save_interval = 0
                     THEN SaveProgress(current_index + batch_size)
                     ELSE checkpoint
    /\ saved' = IF processed_count % save_interval = 0 THEN persisted ELSE saved
    /\ current_index' = NextIndex(current_index, batch_size)
    /\ saved_at' = IF processed_count % save_interval = 0
                   THEN saved_at \cup {processed_count}
                   ELSE saved_at
    /\ pc' = "while"
    /\ UNCHANGED <<pipevars, directvars, lockvars, roundhist, buildervars, storehist, manvars, callhist, nonpositive_given, cfgvars, processed_count, success_count, failed_indices, batch,
                   collected, retryvars, poolvars, thr, shutdown, tokvars,
                   persisted, final_saved, stats, histvars, extrvars>>

\* ThreadPoolExecutor.__exit__: shutdown(wait=True) returns when every submitted
\* work item has run
PoolExit ==
    /\ pc = "poolexit"
    /\ PoolDrained
    /\ pc' = "retrycheck"
    /\ UNCHANGED <<pipevars, directvars, lockvars, roundhist, buildervars, storehist, manvars, callhist, arghist, cfgvars, current_index, processed_count, success_count,
                   failed_indices, batch, collected, retryvars, poolvars, thr,
                   shutdown, tokvars, persisted, outvars, histvars, extrvars>>

\* The exception path: __exit__ waits for the pool, then
\* except Exception: _shutdown_event.set(); finally: _shutdown_event.set()
AbortRun ==
    /\ pc = "abort"
    /\ PoolDrained
    /\ shutdown' = TRUE
    /\ pc' = "done"
    /\ UNCHANGED <<pipevars, directvars, lockvars, roundhist, buildervars, storehist, manvars, callhist, arghist, cfgvars, current_index, processed_count, success_count,
                   failed_indices, batch, collected, retryvars, poolvars, thr,
                   tokvars, persisted, outvars, histvars, extrvars>>

\* --------------------------------------------------------- retry rounds
\* if failed_indices and not shutdown: retry_success = self._retry_failed_items(...)
RetryCheck ==
    /\ pc = "retrycheck"
    /\ retry_success' = 0
    /\ IF failed_indices # <<>> /\ ~shutdown
       THEN /\ remaining' = failed_indices      \* remaining = failed_indices.copy()
            /\ retry_round' = 0
            /\ max_retries' = MaxRetryRounds     \* the default of the parameter
            /\ pc' = "round"
       ELSE /\ pc' = "final"
            /\ UNCHANGED <<remaining, retry_round, max_retries>>
    /\ UNCHANGED <<pipevars, directvars, lockvars, roundhist, buildervars, storehist, entry, scan, callhist, arghist, cfgvars, current_index, processed_count, success_count,
                   failed_indices, batch, collected, current_failed, pos, poolvars,
                   thr, shutdown, tokvars, persisted, outvars, histvars, extrvars>>

\* for retry_round in range(max_retries)
RoundInRangeInclusive(r) == r <= max_retries
RoundInRange(r) == r < max_retries

\* Head of the round loop: range exhausted, or break on empty/shutdown, or a new
\* round (current_failed = remaining.copy(); remaining = []). When the loop is
\* left, _retry_failed_items returns to its caller.
RoundBegin ==
    /\ pc = "round"
    /\ IF RoundInRange(retry_round) /\ remaining # <<>> /\ ~shutdown
       THEN /\ current_failed' = remaining
            /\ remaining' = <<>>
            /\ pos' = 1
            /\ round_start' = Append(round_start, Range(remaining))
            /\ round_calls' = [i \in Indices |-> 0]
            /\ pc' = "item"
       ELSE /\ pc' = IF entry = "manual" THEN "manualend" ELSE "final"
            /\ UNCHANGED <<current_failed, remaining, pos, round_start, round_calls>>
    /\ UNCHANGED <<pipevars, directvars, lockvars, roundhist, buildervars, storehist, manvars, callhist, arghist, cfgvars, current_index, processed_count, success_count,
                   failed_indices, batch, collected, retry_success, retry_round,
                   poolvars, thr, shutdown, tokvars, persisted, outvars, batch_log,
                   retry_ok, shutvars, pipe_after_shutdown, timed_out, extrvars>>

\* for idx in current_failed: if shutdown: break
RetryNext ==
    /\ pc = "item"
    /\ pc' = IF pos > Len(current_failed) \/ shutdown THEN "roundend" ELSE "rcall"
    /\ UNCHANGED <<pipevars, directvars, lockvars, roundhist, buildervars, storehist, manvars, callhist, arghist, cfgvars, current_index, processed_count, success_count,
                   failed_indices, batch, collected, retryvars, poolvars, thr,
                   shutdown, tokvars, persisted, outvars, histvars, extrvars>>

\* remaining after the retry of idx returned ok (True) or not (False or raised)
KeepAfterRetry(rem, idx, ok) == Append(rem, idx)
AfterRetry(rem, idx, ok) == IF ok THEN rem ELSE Append(rem, idx)

\* The scheduler's own bookkeeping when process_request(idx) has returned or raised.
RetryOutcome(idx, ok) ==
    /\ retry_success' = IF ok THEN retry_success + 1 ELSE retry_success
    /\ remaining' = AfterRetry(remaining, idx, ok)
    /\ retry_ok' = IF ok THEN retry_ok \cup {idx} ELSE retry_ok
    /\ pos' = pos + 1
    /\ pc' = "item"

\* success = self.process_request(idx), on the scheduler thread; the call returns
\* False at once when the shutdown flag is set
RetryCall ==
    /\ pc = "rcall"
    /\ LET idx == current_failed[pos]
       IN /\ round_calls' = [round_calls EXCEPT ![idx] = @ + 1]
          /\ call_count' = [call_count EXCEPT ![idx] = @ + 1]
          /\ IF EntersPipeline(shutdown)
             THEN /\ thr' = [thr EXCEPT ![Scheduler] =
                                 [IdleThread EXCEPT !.idx = idx, !.phase = "pipe"]]
                  /\ pc' = "rwait"
                  /\ UNCHANGED <<retry_success, remaining, retry_ok, pos>>
             ELSE /\ RetryOutcome(idx, FALSE)
                  /\ UNCHANGED thr
    /\ pipe_after_shutdown' = (pipe_after_shutdown
                                  \/ (shutdown /\ EntersPipeline(shutdown)))
    /\ UNCHANGED <<pipevars, directvars, lockvars, roundhist, buildervars, storehist, manvars, returned_ok, arghist, cfgvars, current_index, processed_count, success_count,
                   failed_indices, batch, collected, current_failed, retry_round,
                   poolvars, shutdown, tokvars, persisted, outvars, batch_log,
                   round_start, shutvars, timed_out, extrvars>>

\* if retry_success > 0: self.subtitle_manager.save_all()
SavesAlways(successes) == TRUE
SavesAfterRound(successes) == successes > 0

RECURSIVE SumOk(_)
\* the successes of the rounds logged so far
SumOk(log) == IF log = <<>> THEN 0 ELSE Head(log).ok + SumOk(Tail(log))

\* End of a round: save after the round if retry_success > 0; next round
RoundEnd ==
    /\ pc = "roundend"
    /\ saved' = IF SavesAfterRound(retry_success) THEN persisted ELSE saved
    /\ round_log' = Append(round_log,
                           [ok |-> retry_success - SumOk(round_log),
                            saved |-> SavesAfterRound(retry_success)])
    /\ retry_round' = retry_round + 1
    /\ pc' = "round"
    /\ UNCHANGED <<pipevars, directvars, lockvars, buildervars, storehist, manvars, callhist, arghist, cfgvars, current_index, processed_count, success_count,
                   failed_indices, batch, collected, retry_success, remaining,
                   current_failed, pos, poolvars, thr, shutdown, tokvars, persisted,
                   checkpoint, final_saved, stats, histvars, extrvars>>

\* ------------------------------------------------ final save and statistics
\* self.save_progress(total_subs); self.subtitle_manager.save_all()
FinalSave ==
    /\ pc = "final"
    /\ checkpoint' = SaveProgress(total_subs)
    /\ saved' = persisted
    /\ final_saved' = TRUE
    /\ pc' = "stats"
    /\ UNCHANGED <<pipevars, directvars, lockvars, roundhist, buildervars, storehist, manvars, callhist, arghist, cfgvars, current_index, processed_count, success_count,
                   failed_indices, batch, collected, retryvars, poolvars, thr,
                   shutdown, tokvars, persisted, stats, histvars, extrvars>>

\* _print_statistics: the lines up to "Final failed" are logged, then
\* total_success/total*100 is evaluated (ZeroDivisionError when total = 0, caught
\* by except Exception of the caller), then the token usage line.
StatsPrinted(total) == IF total = 0 THEN "partial" ELSE "full"

\* _print_statistics(...), then finally: self._shutdown_event.set()
PrintStatistics ==
    /\ pc = "stats"
    /\ stats' = StatsPrinted(total_subs)
    /\ shutdown' = TRUE
    /\ pc' = "done"
    /\ UNCHANGED <<pipevars, directvars, lockvars, roundhist, buildervars, storehist, manvars, callhist, arghist, cfgvars, current_index, processed_count, success_count,
                   failed_indices, batch, collected, retryvars, poolvars, thr,
                   tokvars, persisted, saved, checkpoint, final_saved, histvars,
                   extrvars>>

\* ------------------------------------------------------- worker threads
\* A pool thread takes the next work item and enters process_request:
\* if self._shutdown_event.is_set(): return False
WorkerStart(w) ==
    /\ w <= PoolCapacity
    /\ ~Busy(w)
    /\ \A v \in 1..(w - 1) : Busy(v)
    /\ queue # <<>>
    /\ LET i == Head(queue)
       IN IF EntersPipeline(shutdown)
          THEN /\ thr' = [thr EXCEPT ![w] =
                              [IdleThread EXCEPT !.idx = i, !.phase = "pipe"]]
               /\ UNCHANGED fut
          ELSE /\ fut' = [fut EXCEPT ![i] = "fail"]
               /\ UNCHANGED thr
    /\ pipe_after_shutdown' = (pipe_after_shutdown
                                  \/ (shutdown /\ EntersPipeline(shutdown)))
    /\ queue' = Tail(queue)
    /\ call_count' = [call_count EXCEPT ![Head(queue)] = @ + 1]
    /\ UNCHANGED <<pipevars, directvars, lockvars, roundhist, buildervars, storehist, manvars, returned_ok, arghist, cfgvars, schedvars, retryvars, shutdown, tokvars, persisted,
                   outvars, batch_log, round_start, round_calls, retry_ok,
                   shutvars, timed_out, extrvars>>

\* get_text / get_context / TranslationRequest(...) / self.pipeline.handle(request)
\* on thread t: the pipeline result is kept in the thread's frame
RunPipeline(t) ==
    /\ thr[t].phase = "pipe"
    /\ \E valid \in BOOLEAN, script \in Scripts :
         LET r == PipelineHandle(valid, script)
         IN /\ thr' = [thr EXCEPT ![t] = [@ EXCEPT !.phase = "upd",
                                                   !.ok = r.success,
                                                   !.tin = r.input_tokens,
                                                   !.tout = r.output_tokens]]
            /\ persisted' = IF r.success THEN persisted \cup {thr[t].idx}
                            ELSE persisted
            /\ extracted_in' = extracted_in + SumIn(script, r.attempt_count)
            /\ extracted_out' = extracted_out + SumOut(script, r.attempt_count)
            /\ item_failed' = (item_failed \/ ~r.success)
    /\ UNCHANGED <<pipevars, directvars, lockvars, roundhist, buildervars, storehist, manvars, callhist, arghist, cfgvars, schedvars, retryvars, poolvars, shutdown, tokvars,
                   outvars, histvars>>

\* A worker's process_request raises before the pipeline ran (store access):
\* the future holds the exception
WorkerRaise(w) ==
    /\ w \in 1..MaxWorkers
    /\ thr[w].phase = "pipe"
    /\ fut' = [fut EXCEPT ![thr[w].idx] = "raise"]
    /\ thr' = [thr EXCEPT ![w] = IdleThread]
    /\ item_failed' = TRUE
    /\ UNCHANGED <<pipevars, directvars, lockvars, roundhist, buildervars, storehist, manvars, callhist, arghist, cfgvars, schedvars, retryvars, queue, shutdown, tokvars,
                   persisted, outvars, histvars, extracted_in, extracted_out>>

\* Token statistics update under stats_lock, then return result.success:
\* the worker's future is resolved
WorkerReturn(w) ==
    /\ w \in 1..MaxWorkers
    /\ thr[w].phase = "upd"
    /\ total_input_tokens' = AddTokens(total_input_tokens, thr[w], thr[w].tin)
    /\ total_output_tokens' = AddTokens(total_output_tokens, thr[w], thr[w].tout)
    /\ fut' = [fut EXCEPT ![thr[w].idx] = IF thr[w].ok THEN "ok" ELSE "fail"]
    /\ returned_ok' = IF thr[w].ok THEN returned_ok \cup {thr[w].idx}
                       ELSE returned_ok
    /\ thr' = [thr EXCEPT ![w] = IdleThread]
    /\ UNCHANGED <<pipevars, directvars, lockvars, roundhist, buildervars, storehist, manvars, call_count, arghist, cfgvars, schedvars, retryvars, queue, shutdown, persisted,
                   outvars, histvars, extrvars>>

\* The retried process_request raises on the scheduler thread:
\* except Exception: remaining.append(idx)
RetryRaise ==
    /\ pc = "rwait"
    /\ thr[Scheduler].phase = "pipe"
    /\ RetryOutcome(thr[Scheduler].idx, FALSE)
    /\ thr' = [thr EXCEPT ![Scheduler] = IdleThread]
    /\ item_failed' = TRUE
    /\ UNCHANGED <<pipevars, directvars, lockvars, roundhist, buildervars, storehist, manvars, callhist, arghist, cfgvars, current_index, processed_count, success_count,
                   failed_indices, batch, collected, current_failed, retry_round,
                   poolvars, shutdown, tokvars, persisted, outvars, batch_log,
                   round_start, round_calls, shutvars, pipe_after_shutdown,
                   timed_out, extracted_in, extracted_out>>

\* The retried process_request updates the token statistics and returns
RetryReturn ==
    /\ pc = "rwait"
    /\ thr[Scheduler].phase = "upd"
    /\ total_input_tokens' =
           AddTokens(total_input_tokens, thr[Scheduler], thr[Scheduler].tin)
    /\ total_output_tokens' =
           AddTokens(total_output_tokens, thr[Scheduler], thr[Scheduler].tout)
    /\ RetryOutcome(thr[Scheduler].idx, thr[Scheduler].ok)
    /\ returned_ok' = IF thr[Scheduler].ok
                       THEN returned_ok \cup {thr[Scheduler].idx}
                       ELSE returned_ok
    /\ thr' = [thr EXCEPT ![Scheduler] = IdleThread]
    /\ UNCHANGED <<pipevars, directvars, lockvars, roundhist, buildervars, storehist, manvars, call_count, arghist, cfgvars, current_index, processed_count, success_count,
                   failed_indices, batch, collected, current_failed, retry_round,
                   poolvars, shutdown, persisted, outvars, batch_log, round_start,
                   round_calls, shutvars, pipe_after_shutdown, timed_out,
                   extrvars>>

\* ----------------------------------------------------------- environment
\* Another thread sets the cooperative shutdown flag (_shutdown_event.set())
SetShutdown ==
    /\ pc # "done"
    /\ ~shutdown
    /\ shutdown' = TRUE
    /\ ext_shutdown' = TRUE
    /\ shutdown_in_batch' = (pc = "collect")
    /\ batches_at_shutdown' = Len(batch_log)
    /\ UNCHANGED <<pipevars, directvars, lockvars, roundhist, buildervars, storehist, manvars, callhist, arghist, cfgvars, schedvars, retryvars, poolvars, thr, tokvars,
                   persisted, outvars, batch_log, round_start, round_calls,
                   retry_ok, pipe_after_shutdown, timed_out, extrvars>>

Next ==
    \/ Call
    \/ Begin
    \/ SubmitBatch
    \/ LoopExit
    \/ \E i \in Indices : Collect(i)
    \/ CollectEnd
    \/ BatchTimeout
    \/ PostBatch
    \/ PoolExit
    \/ AbortRun
    \/ RetryCheck
    \/ RoundBegin
    \/ RetryNext
    \/ RetryCall
    \/ RoundEnd
    \/ FinalSave
    \/ PrintStatistics
    \/ \E w \in 1..MaxWorkers : WorkerStart(w)
    \/ \E t \in Threads : RunPipeline(t)
    \/ \E w \in 1..MaxWorkers : WorkerRaise(w)
    \/ \E w \in 1..MaxWorkers : WorkerReturn(w)
    \/ RetryRaise
    \/ RetryReturn
    \/ SetShutdown

Spec == Init /\ [][Next]_vars

\* The steps of the run itself: those of the scheduler thread between the call
\* and the return, and those of the pool threads. The call and the setting of
\* the shutdown flag by another thread are left to the environment.
RunSteps ==
    \/ Begin
    \/ SubmitBatch
    \/ LoopExit
    \/ \E i \in Indices : Collect(i)
    \/ CollectEnd
    \/ BatchTimeout
    \/ PostBatch
    \/ PoolExit
    \/ AbortRun
    \/ RetryCheck
    \/ RoundBegin
    \/ RetryNext
    \/ RetryCall
    \/ RoundEnd
    \/ FinalSave
    \/ PrintStatistics
    \/ \E w \in 1..MaxWorkers : WorkerStart(w)
    \/ \E t \in Threads : RunPipeline(t)
    \/ \E w \in 1..MaxWorkers : WorkerRaise(w)
    \/ \E w \in 1..MaxWorkers : WorkerReturn(w)
    \/ RetryRaise
    \/ RetryReturn

\* Every thread keeps running: the sleeps are finite, as_completed returns or
\* raises by its timeout, and each pipeline call returns.
FairSpec == Spec /\ WF_vars(RunSteps)

\* The state of a run: Idle before the call, Completed after the return, and in
\* between Running until the shutdown flag is set, Draining from then on.
RunState ==
    IF pc = "idle" THEN "Idle"
    ELSE IF pc = "done" THEN "Completed"
    ELSE IF shutdown THEN "Draining"
    ELSE "Running"

\* the place of a run state in Idle, Running, Draining, Completed
StateRank(st) ==
    IF st = "Idle" THEN 0
    ELSE IF st = "Running" THEN 1
    ELSE IF st = "Draining" THEN 2
    ELSE 3

\* ---------------------------------------- one request through the pipeline
\* The orchestrator at rest (nothing running), and a request about to enter the
\* chain built in __init__, for every text, language list and attempt budget.
PipeInit ==
    /\ total_subs = 0
    /\ start_index = 0
    /\ worker_count = 1
    /\ batch_size = 1
    /\ save_interval = 1
    /\ pc = "idle"
    /\ current_index = 0
    /\ processed_count = 0
    /\ success_count = 0
    /\ failed_indices = <<>>
    /\ batch = <<>>
    /\ collected = {}
    /\ retry_success = 0
    /\ remaining = <<>>
    /\ current_failed = <<>>
    /\ retry_round = 0
    /\ pos = 0
    /\ queue = <<>>
    /\ fut = [i \in Indices |-> "none"]
    /\ thr = [t \in Threads |-> IdleThread]
    /\ shutdown = FALSE
    /\ total_input_tokens = 0
    /\ total_output_tokens = 0
    /\ persisted = {}
    /\ saved = {}
    /\ checkpoint = [a_index |-> 0, tin |-> 0, tout |-> 0, written |-> FALSE]
    /\ final_saved = FALSE
    /\ stats = "none"
    /\ batch_log = <<>>
    /\ extracted_in = 0
    /\ extracted_out = 0
    /\ round_start = <<>>
    /\ round_calls = [i \in Indices |-> 0]
    /\ retry_ok = {}
    /\ ext_shutdown = FALSE
    /\ shutdown_in_batch = FALSE
    /\ batches_at_shutdown = 0
    /\ pipe_after_shutdown = FALSE
    /\ timed_out = FALSE
    /\ item_failed = FALSE
    /\ saved_at = {}
    /\ nonpositive_given = FALSE
    /\ call_count = [i \in Indices |-> 0]
    /\ direct_calls = 0
    /\ returned_ok = {}
    /\ entry = "none"
    /\ max_retries = 0
    /\ builder_handlers = <<>>
    /\ handler_next = <<>>
    /\ build_result = "none"
    /\ ops = <<>>
    /\ round_log = <<>>
    /\ stats_lock = NoHolder
    /\ complete_totals = {<<0, 0>>}
    /\ scan = <<>>
    /\ \E text \in Texts, langs \in LangSets : request = NewRequest(text, langs)
    /\ max_attempts \in 1..MaxBudget
    /\ stage = Handlers[1]
    /\ response = NoResponse
    /\ result = Failed(0, 0)
    /\ backend_calls = 0
    /\ attempt_log = <<>>
    /\ stored = EmptyMap
    /\ log_lines = 0
    /\ stored_before = EmptyMap
    /\ persisted_last = EmptyMap
    /\ persist_count = 0

PipeNext ==
    \/ Validation
    \/ ExecutionCall
    \/ ExecutionRecord
    \/ Persistence
    \/ Logging

PipeSpec == PipeInit /\ [][PipeNext]_vars

\* handle() runs on one thread without waiting for any other; every backend
\* call returns (at the latest by its timeout), so the pass keeps moving
PipeFairSpec == PipeSpec /\ WF_vars(PipeNext)

\* ------------------------------------------------- manual_retry_failed
RECURSIVE Ascending(_)
\* the elements of a set of indices in ascending order
Ascending(S) ==
    IF S = {} THEN <<>>
    ELSE LET m == CHOOSE x \in S : \A y \in S : x <= y
         IN <<m>> \o Ascending(S \ {m})

\* subtitle_manager.get_failed_indices(): the indices of the store that miss a
\* target language, each once
Scans(total) == {Ascending(S) : S \in SUBSET (1..total)}

\* A newly constructed orchestrator (retry_failed.py) over a store of total_subs
\* segments, some of them missing a translation.
ManualInit ==
    /\ PipeIdle
    /\ total_subs \in 0..MaxTotal
    /\ scan \in Scans(total_subs)
    /\ start_index = 0
    /\ worker_count = 1
    /\ batch_size = 1
    /\ save_interval = 1
    /\ pc = "idle"
    /\ current_index = 0
    /\ processed_count = 0
    /\ success_count = 0
    /\ failed_indices = <<>>
    /\ batch = <<>>
    /\ collected = {}
    /\ retry_success = 0
    /\ remaining = <<>>
    /\ current_failed = <<>>
    /\ retry_round = 0
    /\ pos = 0
    /\ queue = <<>>
    /\ fut = [i \in Indices |-> "none"]
    /\ thr = [t \in Threads |-> IdleThread]
    /\ shutdown = FALSE
    /\ total_input_tokens = 0
    /\ total_output_tokens = 0
    /\ persisted = {}
    /\ saved = {}
    /\ checkpoint = [a_index |-> 0, tin |-> 0, tout |-> 0, written |-> FALSE]
    /\ final_saved = FALSE
    /\ stats = "none"
    /\ batch_log = <<>>
    /\ extracted_in = 0
    /\ extracted_out = 0
    /\ round_start = <<>>
    /\ round_calls = [i \in Indices |-> 0]
    /\ retry_ok = {}
    /\ ext_shutdown = FALSE
    /\ shutdown_in_batch = FALSE
    /\ batches_at_shutdown = 0
    /\ pipe_after_shutdown = FALSE
    /\ timed_out = FALSE
    /\ item_failed = FALSE
    /\ saved_at = {}
    /\ nonpositive_given = FALSE
    /\ call_count = [i \in Indices |-> 0]
    /\ direct_calls = 0
    /\ returned_ok = {}
    /\ entry = "none"
    /\ max_retries = 0
    /\ builder_handlers = <<>>
    /\ handler_next = <<>>
    /\ build_result = "none"
    /\ ops = <<>>
    /\ round_log = <<>>
    /\ stats_lock = NoHolder
    /\ complete_totals = {<<0, 0>>}

\* manual_retry_failed(max_retries): failed_indices = get_failed_indices();
\* return at once when there is none, else _retry_failed_items(failed_indices,
\* max_retries)
ManualCall ==
    /\ pc = "idle"
    /\ entry' = "manual"
    /\ failed_indices' = scan
    /\ \E m \in 0..MaxManualRetries : max_retries' = m
    /\ retry_success' = 0
    /\ retry_round' = 0
    /\ IF scan = <<>>
       THEN /\ pc' = "mdone"
            /\ UNCHANGED remaining
       ELSE /\ pc' = "round"
            /\ remaining' = scan
    /\ UNCHANGED <<pipevars, directvars, lockvars, roundhist, buildervars, storehist, scan, callhist, arghist, cfgvars, current_index,
                   processed_count, success_count, batch, collected,
                   current_failed, pos, poolvars, thr, shutdown, tokvars,
                   persisted, outvars, histvars, extrvars>>

\* _retry_failed_items has returned: "Manual retry completed: n/m succeeded"
ManualEnd ==
    /\ pc = "manualend"
    /\ pc' = "mdone"
    /\ UNCHANGED <<pipevars, directvars, lockvars, roundhist, buildervars, storehist, manvars, callhist, arghist, cfgvars, current_index,
                   processed_count, success_count, failed_indices, batch,
                   collected, retryvars, poolvars, thr, shutdown, tokvars,
                   persisted, outvars, histvars, extrvars>>

ManualNext ==
    \/ ManualCall
    \/ RoundBegin
    \/ RetryNext
    \/ RetryCall
    \/ RoundEnd
    \/ \E t \in Threads : RunPipeline(t)
    \/ RetryRaise
    \/ RetryReturn
    \/ SetShutdown
    \/ ManualEnd

ManualSpec == ManualInit /\ [][ManualNext]_vars

\* ------------------------------- calls on an orchestrator after a run returned
\* a public method has returned to its caller
Returned == pc \in {"done", "mdone"}

\* run_batch_translation is called again on the same orchestrator, with the
\* arguments of the first call
RunAgain ==
    /\ Returned
    /\ entry' = "rerun"
    /\ pc' = "entry"
    /\ UNCHANGED <<pipevars, directvars, lockvars, roundhist, buildervars, storehist, max_retries, scan, callhist, arghist, cfgvars, current_index,
                   processed_count, success_count, failed_indices, batch,
                   collected, retryvars, poolvars, thr, shutdown, tokvars,
                   persisted, outvars, histvars, extrvars>>

\* subtitle_manager.get_failed_indices() on the orchestrator's store after a
\* run: the indices for which this orchestrator has written no translation
FailedIndexScan == Ascending((1..total_subs) \ persisted)

\* manual_retry_failed() is called on the same orchestrator, max_retries left
\* at its default: the scan of the store, then
\* _retry_failed_items(failed_indices, max_retries)
ManualAgain ==
    /\ Returned
    /\ entry' = "manual"
    /\ scan' = FailedIndexScan
    /\ failed_indices' = scan'
    /\ IF scan' = <<>>
       THEN /\ pc' = "mdone"
            /\ UNCHANGED remaining
       ELSE /\ pc' = "round"
            /\ remaining' = scan'
    /\ max_retries' = MaxManualRetries
    /\ retry_success' = 0
    /\ retry_round' = 0
    /\ UNCHANGED <<pipevars, directvars, lockvars, roundhist, buildervars, storehist, callhist, arghist, cfgvars, current_index,
                   processed_count, success_count, batch, collected,
                   current_failed, pos, poolvars, thr, shutdown, tokvars,
                   persisted, outvars, histvars, extrvars>>

\* process_request(i) is called on the same orchestrator by another caller:
\* if self._shutdown_event.is_set(): return False; otherwise the request is
\* built from the store and sent through the pipeline
DirectCall(i) ==
    /\ Returned
    /\ direct_calls < MaxDirectCalls
    /\ direct_calls' = direct_calls + 1
    /\ thr' = IF EntersPipeline(shutdown)
              THEN [thr EXCEPT ![Scheduler] =
                        [IdleThread EXCEPT !.idx = i, !.phase = "pipe"]]
              ELSE thr
    /\ pipe_after_shutdown' = (pipe_after_shutdown
                                  \/ (shutdown /\ EntersPipeline(shutdown)))
    /\ UNCHANGED <<pipevars, lockvars, roundhist, buildervars, storehist, manvars, callhist, arghist, cfgvars, schedvars, retryvars, poolvars, shutdown, tokvars,
                   persisted, outvars, batch_log, round_start, round_calls,
                   retry_ok, shutvars, timed_out, extrvars>>

RerunNext ==
    \/ Next
    \/ RunAgain
    \/ ManualAgain
    \/ ManualEnd
    \/ \E i \in 1..total_subs : DirectCall(i)

RerunSpec == Init /\ [][RerunNext]_vars

\* ------------------------------------------- the stored record of one index
\* the orchestrator at rest: no run, no manual retry, no call in progress
AtRest ==
    /\ scan = <<>>
    /\ start_index = 0
    /\ worker_count = 1
    /\ batch_size = 1
    /\ save_interval = 1
    /\ pc = "idle"
    /\ current_index = 0
    /\ processed_count = 0
    /\ success_count = 0
    /\ failed_indices = <<>>
    /\ batch = <<>>
    /\ collected = {}
    /\ retry_success = 0
    /\ remaining = <<>>
    /\ current_failed = <<>>
    /\ retry_round = 0
    /\ pos = 0
    /\ queue = <<>>
    /\ fut = [i \in Indices |-> "none"]
    /\ thr = [t \in Threads |-> IdleThread]
    /\ shutdown = FALSE
    /\ total_input_tokens = 0
    /\ total_output_tokens = 0
    /\ persisted = {}
    /\ saved = {}
    /\ checkpoint = [a_index |-> 0, tin |-> 0, tout |-> 0, written |-> FALSE]
    /\ final_saved = FALSE
    /\ stats = "none"
    /\ batch_log = <<>>
    /\ extracted_in = 0
    /\ extracted_out = 0
    /\ round_start = <<>>
    /\ round_calls = [i \in Indices |-> 0]
    /\ retry_ok = {}
    /\ ext_shutdown = FALSE
    /\ shutdown_in_batch = FALSE
    /\ batches_at_shutdown = 0
    /\ pipe_after_shutdown = FALSE
    /\ timed_out = FALSE
    /\ item_failed = FALSE
    /\ saved_at = {}
    /\ nonpositive_given = FALSE
    /\ call_count = [i \in Indices |-> 0]
    /\ direct_calls = 0
    /\ returned_ok = {}
    /\ entry = "none"
    /\ max_retries = 0
    /\ builder_handlers = <<>>
    /\ handler_next = <<>>
    /\ build_result = "none"
    /\ ops = <<>>
    /\ round_log = <<>>
    /\ stats_lock = NoHolder
    /\ complete_totals = {<<0, 0>>}

\* the per-language fields a stored record or a successful request can hold
StoreLangs == {"en", "ja", "ko"}
Renderings == {"Hello", "Hi"}
StoredRecords == UNION { [L -> Renderings] : L \in SUBSET StoreLangs }

\* One index of the store, holding any record left by earlier runs.
StoreInit ==
    /\ AtRest
    /\ total_subs = 0
    /\ request = NewRequest(<<>>, {})
    /\ max_attempts = 0
    /\ stage = "off"
    /\ response = NoResponse
    /\ result = Failed(0, 0)
    /\ backend_calls = 0
    /\ attempt_log = <<>>
    /\ log_lines = 0
    /\ stored \in StoredRecords
    /\ stored_before = EmptyMap
    /\ persisted_last = EmptyMap
    /\ persist_count = 0

\* PersistenceHandler for a successful request of the index: its translations
\* (never empty for a success) are merged into the stored record
PersistSuccess ==
    /\ persist_count < MaxPersists
    /\ \E t \in StoredRecords \ {EmptyMap} :
          /\ stored' = Merge(stored, t)
          /\ persisted_last' = t
    /\ stored_before' = stored
    /\ persist_count' = persist_count + 1
    /\ UNCHANGED <<runvars, request, max_attempts, stage, response, result,
                   backend_calls, attempt_log, log_lines>>

StoreNext == PersistSuccess

StoreSpec == StoreInit /\ [][StoreNext]_vars

\* ------------------------------------------------ stats_lock, step by step
\* Workers that come back from pipeline.handle and update the token statistics,
\* and the scheduler thread in save_progress, one statement at a time.
LockInit ==
    /\ AtRest
    /\ PipeIdle
    /\ total_subs \in 1..MaxTotal

\* result = self.pipeline.handle(request) has returned on worker w for an index
\* not processed before
PipelineReturns(w) ==
    /\ ~Busy(w)
    /\ \E i \in 1..total_subs, r \in ExecResults :
          /\ call_count[i] = 0
          /\ call_count' = [call_count EXCEPT ![i] = 1]
          /\ thr' = [thr EXCEPT ![w] = [idx |-> i, phase |-> "upd", ok |-> r.ok,
                                        tin |-> r.tin, tout |-> r.tout]]
    /\ UNCHANGED <<pipevars, directvars, storehist, buildervars, lockvars, roundhist,
                   manvars, returned_ok, arghist, cfgvars, schedvars, retryvars,
                   poolvars, shutdown, tokvars, persisted, outvars, histvars,
                   extrvars>>

\* no tokens: return result.success without touching the statistics
ReturnWithoutUpdate(w) ==
    /\ thr[w].phase = "upd"
    /\ ~UpdatesTokens(thr[w])
    /\ thr' = [thr EXCEPT ![w] = IdleThread]
    /\ UNCHANGED <<pipevars, directvars, storehist, buildervars, lockvars, roundhist,
                   manvars, callhist, arghist, cfgvars, schedvars, retryvars,
                   poolvars, shutdown, tokvars, persisted, outvars, histvars,
                   extrvars>>

\* with self.stats_lock:
UpdateAcquire(w) ==
    /\ thr[w].phase = "upd"
    /\ UpdatesTokens(thr[w])
    /\ LockFree(stats_lock)
    /\ stats_lock' = w
    /\ thr' = [thr EXCEPT ![w].phase = "add_in"]
    /\ UNCHANGED <<pipevars, directvars, storehist, buildervars, complete_totals, roundhist,
                   manvars, callhist, arghist, cfgvars, schedvars, retryvars,
                   poolvars, shutdown, tokvars, persisted, outvars, histvars,
                   extrvars>>

\* self.total_input_tokens += result.input_tokens
UpdateInput(w) ==
    /\ thr[w].phase = "add_in"
    /\ total_input_tokens' = total_input_tokens + thr[w].tin
    /\ thr' = [thr EXCEPT ![w].phase = "add_out"]
    /\ UNCHANGED <<pipevars, directvars, storehist, buildervars, lockvars, roundhist,
                   manvars, callhist, arghist, cfgvars, schedvars, retryvars,
                   poolvars, shutdown, total_output_tokens, persisted, outvars,
                   histvars, extrvars>>

\* self.total_output_tokens += result.output_tokens
UpdateOutput(w) ==
    /\ thr[w].phase = "add_out"
    /\ total_output_tokens' = total_output_tokens + thr[w].tout
    /\ thr' = [thr EXCEPT ![w].phase = "unlock"]
    /\ UNCHANGED <<pipevars, directvars, storehist, buildervars, lockvars, roundhist,
                   manvars, callhist, arghist, cfgvars, schedvars, retryvars,
                   poolvars, shutdown, total_input_tokens, persisted, outvars,
                   histvars, extrvars>>

\* end of the with-block: the lock is released; return result.success
UpdateRelease(w) ==
    /\ thr[w].phase = "unlock"
    /\ stats_lock' = NoHolder
    /\ complete_totals' =
           complete_totals \cup {<<total_input_tokens, total_output_tokens>>}
    /\ thr' = [thr EXCEPT ![w] = IdleThread]
    /\ UNCHANGED <<pipevars, directvars, storehist, buildervars, roundhist,
                   manvars, callhist, arghist, cfgvars, schedvars, retryvars,
                   poolvars, shutdown, tokvars, persisted, outvars, histvars,
                   extrvars>>

\* save_progress(index) on the scheduler thread: with self.stats_lock:
SaveAcquire ==
    /\ ~Busy(Scheduler)
    /\ LockFree(stats_lock)
    /\ stats_lock' = Scheduler
    /\ thr' = [thr EXCEPT ![Scheduler] = [IdleThread EXCEPT !.phase = "read_in"]]
    /\ UNCHANGED <<pipevars, directvars, storehist, buildervars, complete_totals, roundhist,
                   manvars, callhist, arghist, cfgvars, schedvars, retryvars,
                   poolvars, shutdown, tokvars, persisted, outvars, histvars,
                   extrvars>>

\* total_input = self.total_input_tokens
SaveReadInput ==
    /\ thr[Scheduler].phase = "read_in"
    /\ thr' = [thr EXCEPT ![Scheduler].tin = total_input_tokens,
                          ![Scheduler].phase = "read_out"]
    /\ UNCHANGED <<pipevars, directvars, storehist, buildervars, lockvars, roundhist,
                   manvars, callhist, arghist, cfgvars, schedvars, retryvars,
                   poolvars, shutdown, tokvars, persisted, outvars, histvars,
                   extrvars>>

\* total_output = self.total_output_tokens, end of the with-block
SaveReadOutput ==
    /\ thr[Scheduler].phase = "read_out"
    /\ thr' = [thr EXCEPT ![Scheduler].tout = total_output_tokens,
                          ![Scheduler].phase = "write"]
    /\ stats_lock' = NoHolder
    /\ UNCHANGED <<pipevars, directvars, storehist, buildervars, complete_totals, roundhist,
                   manvars, callhist, arghist, cfgvars, schedvars, retryvars,
                   poolvars, shutdown, tokvars, persisted, outvars, histvars,
                   extrvars>>

\* data = {..., "total_input_tokens": total_input, "total_output_tokens":
\* total_output}; FileUtils.write_json_file(index_path, data)
SaveWrite ==
    /\ thr[Scheduler].phase = "write"
    /\ checkpoint' = [a_index |-> total_subs, tin |-> thr[Scheduler].tin,
                      tout |-> thr[Scheduler].tout, written |-> TRUE]
    /\ thr' = [thr EXCEPT ![Scheduler] = IdleThread]
    /\ UNCHANGED <<pipevars, directvars, storehist, buildervars, lockvars, roundhist,
                   manvars, callhist, arghist, cfgvars, schedvars, retryvars,
                   poolvars, shutdown, tokvars, persisted, saved, final_saved,
                   stats, histvars, extrvars>>

LockNext ==
    \/ \E w \in 1..MaxWorkers : PipelineReturns(w)
    \/ \E w \in 1..MaxWorkers : ReturnWithoutUpdate(w)
    \/ \E w \in 1..MaxWorkers : UpdateAcquire(w)
    \/ \E w \in 1..MaxWorkers : UpdateInput(w)
    \/ \E w \in 1..MaxWorkers : UpdateOutput(w)
    \/ \E w \in 1..MaxWorkers : UpdateRelease(w)
    \/ SaveAcquire
    \/ SaveReadInput
    \/ SaveReadOutput
    \/ SaveWrite

LockSpec == LockInit /\ [][LockNext]_vars

\* ------------------------------------------- TranslationPipelineBuilder
\* self._handlers.append(...Handler(...)); return self
AddHandler(hs, h) == Append(hs, h)

\* self._handlers = []; return self
ResetHandlers(hs) == <<>>

\* for i in range(len(self._handlers) - 1):
\*     self._handlers[i].set_next(self._handlers[i + 1])
LinkAllButLast(next) ==
    [i \in 1..Len(next) |-> IF i < Len(next) - 1 THEN i + 1 ELSE next[i]]
LinkInOrder(next) ==
    [i \in 1..Len(next) |-> IF i < Len(next) THEN i + 1 ELSE next[i]]

\* build(): ValueError when no handler was added, else the handlers are chained
\* and the first one is returned
BuildAlwaysReturns(hs) == IF hs = <<>> THEN "none" ELSE hs[1]
BuildResult(hs) == IF hs = <<>> THEN "ValueError" ELSE hs[1]

\* TranslationPipelineBuilder(): self._handlers = []
BuilderInit ==
    /\ AtRest
    /\ PipeIdle
    /\ total_subs = 0

Add(h) ==
    /\ Len(ops) < MaxOps
    /\ builder_handlers' = AddHandler(builder_handlers, h)
    /\ handler_next' = Append(handler_next, 0)
    /\ ops' = Append(ops, "add")
    /\ UNCHANGED <<orchvars, pipevars, storehist, build_result>>

add_validation == Add("validation")
add_execution == Add("execution")
add_persistence == Add("persistence")
add_logging == Add("logging")

reset ==
    /\ Len(ops) < MaxOps
    /\ builder_handlers' = ResetHandlers(builder_handlers)
    /\ handler_next' = <<>>
    /\ ops' = Append(ops, "reset")
    /\ UNCHANGED <<orchvars, pipevars, storehist, build_result>>

build ==
    /\ Len(ops) < MaxOps
    /\ build_result' = BuildResult(builder_handlers)
    /\ handler_next' = IF builder_handlers = <<>> THEN handler_next
                       ELSE LinkInOrder(handler_next)
    /\ ops' = Append(ops, "build")
    /\ UNCHANGED <<orchvars, pipevars, storehist, builder_handlers>>

BuilderNext ==
    \/ add_validation
    \/ add_execution
    \/ add_persistence
    \/ add_logging
    \/ reset
    \/ build

BuilderSpec == BuilderInit /\ [][BuilderNext]_vars

\* self.pipeline.handle(request) in process_request, on the pipeline that
\* __init__ built with add_validation, add_execution, add_persistence,
\* add_logging and build: the request is handed to the handler build() returned
Handle ==
    /\ stage = "off"
    /\ ops # <<>> /\ ops[Len(ops)] = "build"
    /\ builder_handlers = Handlers
    /\ build_result \in Range(builder_handlers)
    /\ \E text \in Texts, langs \in LangSets : request' = NewRequest(text, langs)
    /\ max_attempts' \in 1..MaxBudget
    /\ stage' = build_result
    /\ UNCHANGED <<runvars, storehist, response, result, backend_calls,
                   attempt_log, stored, log_lines>>

\* __init__ makes its calls on a builder that nothing else refers to: once the
\* pipeline is built and in use, no call is made on the builder
ChainNext ==
    \/ stage = "off" /\ BuilderNext
    \/ Handle
    \/ PipeNext

\* a builder, and a request through the pipeline once the builder has built the
\* orchestrator's pipeline
ChainSpec == BuilderInit /\ [][ChainNext]_vars

\* ---------------------------------------------------------- observations
RECURSIVE Flatten(_)
Flatten(ss) == IF ss = <<>> THEN <<>> ELSE Head(ss) \o Flatten(Tail(ss))

\* every index submitted to the pool in the main pass, in submission order
Submitted == Flatten(batch_log)

MainPassOver == pc \notin {"idle", "entry", "while", "collect", "post"}

RunningThreads == {t \in Threads : Busy(t)}

\* C1: a result that raises, times out (per-result or batch result-collection
\* timeout) or is False puts its index on the failed list and never aborts the
\* run: with no shutdown signal, a finished run has submitted every index of
\* [start_index, total_subs], has counted each submitted index as a success or
\* a failure, and has executed the final save.
C1_FailureNeverAbortsRun ==
    pc = "done" =>
        /\ final_saved
        /\ ~ext_shutdown =>
              /\ Submitted = SeqFromTo(start_index, total_subs + 1)
              /\ success_count + Len(failed_indices) = Len(Submitted)

\* C2: when the shutdown flag is set while a batch is in flight, no further
\* batch is begun, no request enters the pipeline after the flag is set, running
\* items finish, the retry rounds are skipped, and the final save and the
\* statistics still execute.
C2_ShutdownMidBatch ==
    /\ ~pipe_after_shutdown
    /\ shutdown_in_batch => /\ Len(batch_log) = batches_at_shutdown
                            /\ round_start = <<>>
    /\ (pc = "done" /\ shutdown_in_batch) =>
          /\ PoolDrained
          /\ final_saved
          /\ stats = "full"

\* C3: with no shutdown, the main pass submits the indices start_index..total_subs
\* in ascending order, each exactly once and none outside the range, in
\* consecutive batches of at most batch_size indices, only the last one shorter.
C3_MainPassPartition ==
    /\ \E n \in 0..(MaxTotal + 1) : Submitted = SeqFromTo(start_index, start_index + n)
    /\ \A i \in Range(Submitted) : start_index <= i /\ i <= total_subs
    /\ \A k \in 1..Len(batch_log) :
          /\ 1 <= Len(batch_log[k]) /\ Len(batch_log[k]) <= batch_size
          /\ k < Len(batch_log) => Len(batch_log[k]) = batch_size
    /\ (MainPassOver /\ ~ext_shutdown) =>
          Submitted = SeqFromTo(start_index, total_subs + 1)

\* C4: the end-of-run statistics (total, initial success, retry success, final
\* failed, token totals) are printed at the end of every call of
\* run_batch_translation.
C4_StatisticsAlwaysPrinted == pc = "done" => stats = "full"

\* the indices that were still failed when the current (latest) retry round began
RoundSet == IF round_start = <<>> THEN {} ELSE round_start[Len(round_start)]

InRound == pc \in {"item", "rcall", "rwait", "roundend"}

\* C5: an index that succeeded in a retry round is absent from the remaining
\* failed set and is never retried again, and the still-failed set at the start
\* of each round is a subset of the set at the start of the round before.
C5_RetryConvergence ==
    /\ \A k \in 1..(Len(round_start) - 1) : round_start[k + 1] \subseteq round_start[k]
    /\ retry_ok \cap Range(remaining) = {}
    /\ InRound => \A k \in pos..Len(current_failed) : current_failed[k] \notin retry_ok
    /\ Busy(Scheduler) => thr[Scheduler].idx \notin retry_ok

\* an index succeeded in round 1 and round 2 began without it
C5_Witness ==
    /\ Len(round_start) = 2
    /\ \E i \in retry_ok : i \in round_start[1] /\ i \notin round_start[2]

\* C6 as stated: at most MaxRetryRounds rounds, run on the scheduler thread after
\* all batches, no round on an empty failed set, and each round calls
\* process_request exactly once for every index still failed when it began.
C6_EachRoundCallsEveryIndexOnce ==
    /\ Len(round_start) <= MaxRetryRounds
    /\ \A k \in 1..Len(round_start) : round_start[k] # {}
    /\ Busy(Scheduler) => MainPassOver /\ PoolDrained
    /\ pc = "roundend" =>
          \A i \in Indices : round_calls[i] = IF i \in RoundSet THEN 1 ELSE 0

\* C6 amended: as above, but a round calls process_request at most once per index
\* still failed when it began (none for other indices), and exactly once for each
\* of them when the shutdown flag is not set during the round; an index whose
\* retry did not succeed (returned False or raised) stays in the failed set.
C6_RetryRounds ==
    /\ Len(round_start) <= MaxRetryRounds
    /\ \A k \in 1..Len(round_start) : round_start[k] # {}
    /\ Busy(Scheduler) => MainPassOver /\ PoolDrained
    /\ \A i \in Indices : round_calls[i] <= (IF i \in RoundSet THEN 1 ELSE 0)
    /\ (pc = "roundend" /\ ~shutdown) =>
          /\ \A i \in RoundSet : round_calls[i] = 1
          /\ Range(remaining) = RoundSet \ retry_ok

\* the last allowed round ended without shutdown and left an index failed
C6_Witness ==
    /\ pc = "roundend"
    /\ ~shutdown
    /\ Len(round_start) = MaxRetryRounds
    /\ remaining # <<>>

\* C7: if the backend succeeds for every index and no shutdown occurs, a run
\* from index 1 over N >= 1 segments ends with a persisted result for each of
\* 1..N, an empty failed list, no retry round and a last checkpoint of index N.
C7_AllSucceed ==
    (pc = "done" /\ start_index = 1 /\ total_subs >= 1 /\ ~ext_shutdown
       /\ ~item_failed) =>
        /\ persisted = 1..total_subs
        /\ failed_indices = <<>>
        /\ round_start = <<>>
        /\ checkpoint.written /\ checkpoint.a_index = total_subs

\* C8: the number of process_request calls that have started and not returned
\* never exceeds worker_count (a worker_count below one creates no pool, and
\* then no call starts at all).
C8_AtMostWorkerCountRunning ==
    /\ worker_count >= 1 => Cardinality(RunningThreads) <= worker_count
    /\ worker_count < 1 => RunningThreads = {}

\* a batch larger than the pool: every worker busy and a submitted item waiting
C8_Witness ==
    /\ batch_size > worker_count
    /\ Cardinality(RunningThreads) = worker_count
    /\ queue # <<>>

\* C9: no index is in two process_request calls at the same time: the main pass
\* submits each index once, and a retry runs only when every worker has finished.
C9_NoIndexProcessedTwiceAtOnce ==
    /\ \A i \in Indices :
          Cardinality({t \in Threads : Busy(t) /\ thr[t].idx = i}) <= 1
    /\ Cardinality(Range(Submitted)) = Len(Submitted)
    /\ Busy(Scheduler) => PoolDrained

\* an index that a worker processed in the main pass is being retried
C9_Witness ==
    /\ Busy(Scheduler)
    /\ thr[Scheduler].idx \in Range(failed_indices)
    /\ worker_count > 1

\* C10: the token totals never decrease, and whenever no process_request call is
\* in progress they equal the tokens extracted on every attempt made so far,
\* failed attempts included.
C10_TokenTotals ==
    [][ /\ total_input_tokens' >= total_input_tokens
        /\ total_output_tokens' >= total_output_tokens
        /\ RunningThreads' = {} =>
              /\ total_input_tokens' = extracted_in'
              /\ total_output_tokens' = extracted_out' ]_vars

\* all calls returned, several attempts counted, one of them a failed attempt
\* that consumed input tokens
C10_Witness ==
    /\ RunningThreads = {}
    /\ total_input_tokens >= 2
    /\ total_output_tokens < total_input_tokens
    /\ total_input_tokens = extracted_in

\* ------------------------------------------------ claims about the pipeline
PastExecution == stage \in {"persistence", "logging", "end"}

BlankText(text) == \A k \in 1..Len(text) : text[k] = " "

\* C11: a request whose source text is empty or whitespace-only, or whose target
\* language list is empty, is invalid (and no other request is); the validation
\* stage marks it failed and stops the chain, and the backend is never called
\* for it.
C11_InvalidRequestNeverExecuted ==
    /\ ~IsValid(request) <=> (BlankText(request.ko_text) \/ request.target_langs = {})
    /\ ~IsValid(request) =>
          /\ backend_calls = 0
          /\ response = NoResponse
          /\ request.attempt_count = 0
          /\ stage # Handlers[1] =>
                /\ ~request.success
                /\ request.error = "validation"
                /\ stage \in {"logging", "end"}

\* a whitespace-only request with target languages went through the whole chain
C11_Witness ==
    /\ stage = "end"
    /\ request.ko_text = <<" ">>
    /\ request.target_langs # {}
    /\ request.error = "validation"
    /\ backend_calls = 0

\* C12: the attempt count starts at 0 and grows by one with every attempt; a
\* request that fails validation ends with attempt count 0, one whose attempts
\* all fail ends failed with attempt count equal to the budget, and one whose
\* k-th attempt is the first to succeed ends successful with attempt count k,
\* no attempt being made after the successful one.
C12_AttemptAccounting ==
    /\ request.attempt_count = Len(attempt_log)
    /\ request.attempt_count = backend_calls
    /\ request.attempt_count <= max_attempts
    /\ \A k \in 1..(Len(attempt_log) - 1) : attempt_log[k] # "success"
    /\ PastExecution =>
          /\ request.error = "validation" =>
                ~request.success /\ request.attempt_count = 0
          /\ request.error = "execution" =>
                /\ ~request.success
                /\ request.attempt_count = max_attempts
                /\ \A k \in 1..Len(attempt_log) : attempt_log[k] # "success"
          /\ request.success =>
                /\ request.attempt_count >= 1
                /\ attempt_log[request.attempt_count] = "success"
          /\ request.success \/ request.error \in {"validation", "execution"}

\* two failed attempts, then a successful third one
C12_Witness ==
    /\ stage = "end"
    /\ request.success
    /\ request.attempt_count = 3
    /\ attempt_log = <<"failed", "failed", "success">>

\* ------------------------------------------------ claims about the executor
Answered == response.kind = "response" /\ response.messages # <<>>

LastMessage == response.messages[Len(response.messages)]

\* the words of the model that contain a configured phrase in some letter case:
\* "Let Me Check" (rejection phrase "let me check"), "invoke" (tool chatter)
MatchesPhrase(c) == \E k \in 1..Len(c) : c[k] \in {"Let Me Check", "invoke"}

\* C13 as stated: every response whose text contains a rejection phrase or a
\* tool-chatter phrase, in any letter case, is judged invalid, and the attempt
\* ends as a failed attempt returned as a value.
C13_PhraseAlwaysInvalidates ==
    (Answered /\ MatchesPhrase(LastMessage.content)) =>
        /\ ~IsValidResponse(response)
        /\ ~result.success
        /\ ~result.raised

\* C13 amended: a response whose last message carries no tool call and whose
\* text contains a rejection phrase or a tool-chatter phrase, in any letter
\* case, is judged invalid even if the text is otherwise well-formed, and the
\* attempt ends as a failed attempt returned as a value, never as a raised
\* error; a response whose last message carries a tool call is judged valid
\* whatever its text.
C13_PhraseInvalidatesTextResponse ==
    Answered =>
        /\ (LastMessage.tool_calls = <<>> /\ MatchesPhrase(LastMessage.content)) =>
              /\ ~IsValidResponse(response)
              /\ ~result.success
              /\ ~result.raised
              /\ result.translations = EmptyMap
              /\ stage = "execution"
        /\ LastMessage.tool_calls # <<>> => IsValidResponse(response)

\* an otherwise well-formed text with a rejection phrase in mixed case, after a
\* message that carried translations: the attempt failed by value
C13_Witness ==
    /\ Answered
    /\ LastMessage.tool_calls = <<>>
    /\ LastMessage.content = <<"hello", "Let Me Check">>
    /\ ExtractTranslations(response.messages).found
    /\ ~result.success
    /\ stage = "execution"

\* C14: whenever the executor reports success, the translations it returns are
\* a non-empty mapping whose keys are all target languages of the request.
C14_SuccessKeysAreTargetLangs ==
    (response # NoResponse /\ result.success) =>
        /\ DOMAIN result.translations # {}
        /\ DOMAIN result.translations \subseteq request.target_langs

\* some message carries a call of update_translations_in_memory with a
\* 'translations' argument
CarriesTranslations(msgs) ==
    \E i \in 1..Len(msgs) : \E j \in 1..Len(msgs[i].tool_calls) :
        /\ msgs[i].tool_calls[j].name = UPDATE_TOOL
        /\ msgs[i].tool_calls[j].has_translations

\* C15: the executor reports success exactly when the response is valid and
\* extraction yields a non-empty mapping; a valid response with no
\* update_translations_in_memory call carrying 'translations', or with an empty
\* mapping, is a failed attempt with empty translations that still returns the
\* token counts extracted from the response.
C15_SuccessIffValidAndExtracted ==
    response # NoResponse =>
        LET t == ExtractTranslations(response.messages)
            u == ExtractTokenUsage(response.messages)
            extracted == t.found /\ DOMAIN t.translations # {}
        IN /\ result.success <=> (IsValidResponse(response) /\ extracted)
           /\ result.success =>
                 /\ result.translations = t.translations
                 /\ CarriesTranslations(response.messages)
           /\ ~CarriesTranslations(response.messages) => ~extracted
           /\ (IsValidResponse(response) /\ ~extracted) =>
                 /\ ~result.success
                 /\ result.translations = EmptyMap
                 /\ result.input_tokens = u[1]
                 /\ result.output_tokens = u[2]

\* a valid response (its last message calls a tool) whose only
\* update_translations_in_memory call carries an empty mapping, with usage
C15_Witness ==
    /\ Answered
    /\ LastMessage.tool_calls # <<>>
    /\ IsValidResponse(response)
    /\ CarriesTranslations(response.messages)
    /\ ~result.success
    /\ result.input_tokens = 1
    /\ result.output_tokens = 1

\* C16: a backend call that times out or raises (in the call or in the event
\* loop) comes back from execute_sync as the value (False, {}, 0, 0), never as
\* an exception, and while attempts are left the next step is back in the
\* attempt loop with the request not failed for good.
C16_FaultsBecomeValues ==
    /\ [](/\ stage # "raised"
          /\ ~result.raised
          /\ response.kind \in Faults =>
                /\ ~result.success
                /\ result.translations = EmptyMap
                /\ result.input_tokens = 0
                /\ result.output_tokens = 0)
    /\ [][(response.kind \in Faults /\ request.attempt_count < max_attempts) =>
             /\ stage' = "execution"
             /\ response' = NoResponse
             /\ request'.error = "none"
             /\ request'.attempt_count < max_attempts']_vars

\* a timeout or error on the first attempt, a successful second attempt
C16_Witness ==
    /\ stage = "end"
    /\ request.success
    /\ attempt_log = <<"fault", "success">>

\* ------------------------------------------------- arguments and checkpoints
\* at entry: the start index given is not one of 1..total_subs
InvalidStartIndex == ~(1 <= start_index /\ start_index <= total_subs)

C18_NonPositiveConfigStopsRun ==
    nonpositive_given =>
        /\ worker_count <= 0 \/ batch_size <= 0
        /\ Submitted = <<>>
        /\ pc = "done" => ~final_saved

\* C19: each time processed_count reaches a multiple of save_interval a
\* checkpoint is written: every positive multiple that the count has passed,
\* or has reached with the batch closed, has its checkpoint (no batch timed
\* out).
C19_CheckpointAtEveryMultiple ==
    ~timed_out =>
        \A m \in 1..processed_count :
            (/\ m % save_interval = 0
             /\ m < processed_count \/ pc \notin {"collect", "post"}) =>
                m \in saved_at

\* the last index of the highest batch submitted so far
HighestBoundary == batch_log[Len(batch_log)][Len(batch_log[Len(batch_log)])]

\* C20: every write of the checkpoint, periodic or final, records the upper
\* boundary of the highest batch submitted so far: its last index, or the index
\* that follows it.
C20_CheckpointRecordsHighestBatch ==
    [][(checkpoint' # checkpoint /\ batch_log # <<>>) =>
          checkpoint'.a_index \in {HighestBoundary, HighestBoundary + 1}]_vars

C22_PersistMerges ==
    /\ [](persist_count >= 1 =>
            /\ DOMAIN stored = DOMAIN stored_before \cup DOMAIN persisted_last
            /\ \A l \in DOMAIN persisted_last : stored[l] = persisted_last[l]
            /\ \A l \in DOMAIN stored_before \ DOMAIN persisted_last :
                  stored[l] = stored_before[l])
    /\ [][(persist_count >= 1 /\ persist_count' > persist_count
              /\ persisted_last' = persisted_last) => stored' = stored]_vars

\* the same translation for "en" alone was persisted twice in a row into a
\* record that holds "ja" as well: the second persist changed nothing
C22_Witness ==
    /\ persist_count = 2
    /\ stored_before = persisted_last @@ stored
    /\ DOMAIN persisted_last = {"en"}
    /\ "ja" \in DOMAIN stored

\* C23: every request that enters the chain reaches its end, and the logging
\* stage has then run exactly once for it (never twice on the way), whatever
\* validation and execution did; the logging stage leaves the request as it is.
C23_LoggingRunsOnce ==
    /\ [](log_lines <= 1)
    /\ [](stage = "end" => log_lines = 1)
    /\ [][log_lines' # log_lines => request' = request]_vars
    /\ <>(stage = "end")

\* a request that used up its whole attempt budget was logged once
C23_Witness ==
    /\ stage = "end"
    /\ log_lines = 1
    /\ request.error = "execution"
    /\ request.attempt_count = MaxBudget
    /\ stored = EmptyMap

\* C24: a request enters the chain fresh (success false, attempt count 0, no
\* translations, no error); a step that makes it successful is mark_success(t):
\* success true, translations t (those of the attempt's result), error None; a
\* step that sets its error is mark_failure(e): success false, error e, the
\* translations untouched; translations change in no other step and error is
\* set in no other step.
C24_OutcomeTransitions ==
    /\ [](stage = Handlers[1] =>
            /\ ~request.success
            /\ request.attempt_count = 0
            /\ request.translations = EmptyMap
            /\ request.error = "none")
    /\ [][(request'.success /\ ~request.success) =>
             /\ request'.translations = result.translations
             /\ request'.error = "none"]_vars
    /\ [][request'.translations # request.translations =>
             /\ request'.success /\ ~request.success
             /\ request' = MarkSuccess(request', result.translations)]_vars
    /\ [][request'.error # request.error =>
             /\ ~request'.success
             /\ request'.error \in {"validation", "execution"}
             /\ request'.translations = request.translations
             /\ request' = MarkFailure(request', request'.error)]_vars
    /\ [](request.success => request.error = "none")
    /\ [](request.error # "none" => ~request.success /\ request.translations = EmptyMap)

\* a request marked successful on its second attempt, after an attempt whose
\* response was rejected
C24_Witness ==
    /\ request.success
    /\ request.translations # EmptyMap
    /\ request.translations = result.translations
    /\ request.error = "none"
    /\ attempt_log = <<"failed", "success">>
    /\ stage = "persistence"

\* the calls made on the builder since it was created or last reset
RECURSIVE SinceReset(_)
SinceReset(os) ==
    IF os = <<>> \/ os[Len(os)] = "reset" THEN <<>>
    ELSE Append(SinceReset(SubSeq(os, 1, Len(os) - 1)), os[Len(os)])

\* C25: the builder holds no handler exactly when no add_* call was made since
\* it was created or last reset; a build() of a builder that holds no handler
\* raises ValueError, and a build() of any other builder raises nothing and
\* returns the first handler added.
C25_BuildRaisesIffEmpty ==
    /\ builder_handlers = <<>> <=> "add" \notin Range(SinceReset(ops))
    /\ (ops # <<>> /\ ops[Len(ops)] = "build") =>
          /\ builder_handlers = <<>> <=> build_result = "ValueError"
          /\ builder_handlers # <<>> => build_result = builder_handlers[1]

\* two handlers added, then reset, then build: ValueError
C25_Witness ==
    /\ ops = <<"add", "add", "reset", "build">>
    /\ build_result = "ValueError"

\* C26: once the main pass is over (no batch timed out), every index submitted
\* to the pool was collected exactly once, as a success or as a failure, also
\* when the shutdown flag was set during the collection of a batch: the failed
\* list holds submitted indices only, each once, and success_count plus its
\* length is the number of indices submitted.
C26_OneOutcomePerSubmittedIndex ==
    (MainPassOver /\ ~timed_out) =>
        /\ Range(failed_indices) \subseteq Range(Submitted)
        /\ Cardinality(Range(failed_indices)) = Len(failed_indices)
        /\ success_count + Len(failed_indices) = Len(Submitted)

\* C27 as stated: after a retry round the store is saved if and only if at
\* least one item succeeded in that round.
C27_SavedIffSuccessInRound ==
    \A k \in 1..Len(round_log) : round_log[k].saved <=> round_log[k].ok > 0

\* C27 amended: after a retry round the store is saved if and only if at least
\* one item has succeeded in that round or in an earlier round of the same call
\* (so always when an item succeeded in that round).
C27_SavedIffSuccessSoFar ==
    \A k \in 1..Len(round_log) :
        /\ round_log[k].saved <=> SumOk(SubSeq(round_log, 1, k)) > 0
        /\ round_log[k].ok > 0 => round_log[k].saved

\* a first round with a success and a second round without one, both saved
C27_Witness ==
    /\ Len(round_log) = 2
    /\ round_log[1].ok > 0 /\ round_log[1].saved
    /\ round_log[2].ok = 0 /\ round_log[2].saved

\* C28: in one run process_request is called for an index at most
\* 1 + MaxRetryRounds times, of which at most one call is made by the pool
\* (main pass); and no call is made for an index after a call for it returned
\* success.
C28_CallsPerIndexBounded ==
    /\ [](\A i \in Indices :
            /\ call_count[i] <= 1 + MaxRetryRounds
            /\ call_count[i] <= 1 + Len(round_start)
            /\ i \notin Range(Submitted) => call_count[i] = 0)
    /\ [][\A i \in Indices :
             call_count'[i] > call_count[i] =>
                 /\ call_count'[i] = call_count[i] + 1
                 /\ i \notin returned_ok]_vars

\* one index was processed in the main pass and in every retry round without
\* success, another succeeded in the first retry round and was left alone
C28_Witness ==
    /\ pc = "done"
    /\ \E i, j \in Indices :
          /\ call_count[i] = 1 + MaxRetryRounds /\ i \notin returned_ok
          /\ call_count[j] = 2 /\ j \in returned_ok

\* C29: the token pair of every checkpoint (and the pair save_progress has read
\* when it leaves the lock) is the pair of totals as it stood after a complete
\* update, or the initial (0, 0): never the input total of an update with the
\* output total from before it; and at most one thread is inside a with-block
\* of stats_lock.
C29_CheckpointTokensConsistent ==
    /\ checkpoint.written =>
          <<checkpoint.tin, checkpoint.tout>> \in complete_totals
    /\ thr[Scheduler].phase = "write" =>
          <<thr[Scheduler].tin, thr[Scheduler].tout>> \in complete_totals
    /\ Cardinality({t \in Threads :
           thr[t].phase \in {"add_in", "add_out", "unlock", "read_in", "read_out"}}) <= 1

\* a checkpoint with the tokens of a complete update exists while a worker is
\* in the middle of the next update (input added, output not yet)
C29_Witness ==
    /\ checkpoint.written
    /\ checkpoint.tin = 1 /\ checkpoint.tout = 1
    /\ \E w \in 1..MaxWorkers : thr[w].phase = "add_out" /\ thr[w].tout = 1
    /\ total_input_tokens = 2 /\ total_output_tokens = 1
    /\ ~Busy(Scheduler)

\* C30: when run_batch_translation has returned, on every path, the shutdown
\* flag is set, and no step ever clears the flag; from then on a process_request
\* call returns False without entering the pipeline, so that a later
\* manual_retry_failed or a second run on the same orchestrator makes no
\* process_request call, puts no thread in the pipeline and leaves the store and
\* the token totals as they were.
C30_ShutdownLatchedAfterReturn ==
    [][/\ (shutdown => shutdown')
       /\ (pc' = "done" => shutdown')
       /\ (Returned \/ entry \in {"rerun", "manual"}) =>
            /\ shutdown /\ shutdown'
            /\ call_count' = call_count
            /\ persisted' = persisted
            /\ returned_ok' = returned_ok
            /\ batch_log' = batch_log
            /\ round_start' = round_start
            /\ tokvars' = tokvars
            /\ \A t \in Threads : thr'[t].phase = "idle"
            /\ ~pipe_after_shutdown']_vars

\* after a run that processed an item and wrote its final checkpoint, a manual
\* retry over a non-empty scan and a direct process_request call were made, and
\* then a second run, which has returned
C30_Witness ==
    /\ pc = "done"
    /\ entry = "rerun"
    /\ scan # <<>>
    /\ max_retries >= 1
    /\ direct_calls = 1
    /\ final_saved
    /\ total_subs >= 1
    /\ \E i \in Indices : call_count[i] >= 1

\* C31: a run passes through Idle, Running, Draining (once the shutdown flag is
\* set), Completed in that order only: no step goes back to an earlier state,
\* and none goes from Idle to Completed without a run in between. Once called,
\* run_batch_translation returns, whatever the total, the batch size, the
\* worker count and the outcomes of the pipeline calls: every pass of the while
\* loop ends with a larger current_index, every retry round ends with a larger
\* round number that stays within MaxRetryRounds, and the run reaches Completed.
C31_RunTerminatesInOrder ==
    /\ [][/\ StateRank(RunState') >= StateRank(RunState)
          /\ ~(RunState = "Idle" /\ RunState' = "Completed")]_vars
    /\ [][pc = "post" /\ pc' = "while" => current_index' > current_index]_vars
    /\ [][pc = "roundend" /\ pc' = "round" =>
             /\ retry_round' = retry_round + 1
             /\ retry_round' <= MaxRetryRounds]_vars
    /\ (pc = "entry" ~> pc = "done")

\* a run of two batches and a retry round, on which the shutdown flag was set by
\* another thread, has returned
C31_Witness ==
    /\ pc = "done"
    /\ Len(batch_log) >= 2
    /\ round_log # <<>>
    /\ ext_shutdown
    /\ batch_size >= 1

\* C32: a build() of a builder that holds handlers links them in the order they
\* were added (the successor of handler i is handler i + 1, the last one has
\* none) and returns the first; so in the orchestrator's pipeline the chain is
\* validation, execution, persistence, logging, a request enters it at
\* validation, and every step that moves the request to another stage moves it
\* to the linked successor of its stage (after logging: out of the chain), but
\* for an invalid request, which goes from validation on to logging.
C32_ChainInOrderAdded ==
    /\ []((ops # <<>> /\ ops[Len(ops)] = "build" /\ builder_handlers # <<>>) =>
            /\ Len(handler_next) = Len(builder_handlers)
            /\ \A i \in 1..Len(builder_handlers) :
                  handler_next[i] = IF i < Len(builder_handlers) THEN i + 1 ELSE 0
            /\ build_result = builder_handlers[1])
    /\ [](stage # "off" =>
            /\ builder_handlers = <<"validation", "execution", "persistence",
                                    "logging">>
            /\ handler_next = <<2, 3, 4, 0>>
            /\ stage \in Range(builder_handlers) \cup {"end"})
    /\ [][stage' # stage =>
            IF stage = "off" THEN stage' = "validation"
            ELSE LET i == CHOOSE k \in 1..Len(builder_handlers) :
                              builder_handlers[k] = stage
                     linked == IF handler_next[i] = 0 THEN "end"
                               ELSE builder_handlers[handler_next[i]]
                 IN \/ stage' = linked
                    \/ /\ stage = "validation"
                       /\ ~IsValid(request)
                       /\ stage' = "logging"]_vars

\* a valid request has gone through the whole chain of the orchestrator's
\* pipeline: it was executed, persisted and logged
C32_Witness ==
    /\ stage = "end"
    /\ handler_next = <<2, 3, 4, 0>>
    /\ build_result = "validation"
    /\ request.success
    /\ persist_count = 1
    /\ log_lines = 1

====
